---- MODULE Spec2Model ----
(***************************************************************************)
(* Model of scripts/process_gtf.py: main() reads a GTF annotation table,   *)
(* writes it, and (when a splice-sites path is given) derives the          *)
(* genome-wide splice start/end sites with generate_splice_sites and       *)
(* writes the two tables.                                                  *)
(*                                                                         *)
(* A table is a sequence of rows; a row is a record keyed by column name.  *)
(* alphagenome.data.transcript (Transcript.from_gtf_df, Transcript.introns)*)
(* is imported by the script but is not part of the sources at hand; it is *)
(* modelled from the written design (sections 3, 4.1, 7 and 9).            *)
(***************************************************************************)
EXTENDS Integers, Sequences, FiniteSets

\* ------------------------------------------------------------------ bounds

\* Longest input table (rows).
MaxRows == 4

\* Largest genomic coordinate of an input row.
MaxPos == 3

\* ------------------------------------------------------------- value sets

\* The absent-value marker pandas keeps in transcript_id for gene rows (NaN).
NA == "NA"

\* Chromosome names and transcript ids, each listed in ascending (string)
\* order: Python compares them lexicographically.
Chromosomes == <<"chr1", "chr2">>
TranscriptIds == <<"t1", "t2">>
Strands == {"+", "-"}
Features == {"gene", "exon"}

Range(s) == {s[i] : i \in DOMAIN s}

\* Position of a value in one of the ordered lists above (its sort rank).
Rank(order, v) == CHOOSE i \in DOMAIN order : order[i] = v

\* ----------------------------------------------------- sequence utilities

\* The subsequence of s at the indices in keep, from index i on.
RECURSIVE SeqFilterIdx(_, _, _)
SeqFilterIdx(s, keep, i) ==
  IF i > Len(s) THEN <<>>
  ELSE (IF i \in keep THEN <<s[i]>> ELSE <<>>) \o SeqFilterIdx(s, keep, i + 1)

\* All sequences over S of length at most n.
BoundedSeq(S, n) == UNION {[1..k -> S] : k \in 0..n}

\* ------------------------------------------------ pandas: DataFrame.groupby

\* GroupKeys with groupby(..., dropna=False): NaN is a key of its own, last.
GroupKeysKeepNaN(gtf) ==
  SeqFilterIdx(TranscriptIds \o <<NA>>,
               {i \in 1..(Len(TranscriptIds) + 1) :
                  \E r \in DOMAIN gtf :
                     gtf[r].transcript_id = (TranscriptIds \o <<NA>>)[i]},
               1)

\* Keys of gtf.groupby('transcript_id'): the distinct transcript ids present,
\* NaN dropped (dropna=True is the default), in ascending order (sort=True).
GroupKeys(gtf) ==
  SeqFilterIdx(TranscriptIds,
               {i \in DOMAIN TranscriptIds :
                  \E r \in DOMAIN gtf : gtf[r].transcript_id = TranscriptIds[i]},
               1)

\* The group of key k: the rows carrying it, in table order.
Group(gtf, k) ==
  SeqFilterIdx(gtf, {r \in DOMAIN gtf : gtf[r].transcript_id = k}, 1)

\* --------------------------------- alphagenome.data.transcript (from design)

\* Exon rows of one partition.
ExonRows(df) == SeqFilterIdx(df, {r \in DOMAIN df : df[r].Feature = "exon"}, 1)

\* s without its i-th element.
RemoveAt(s, i) == SubSeq(s, 1, i - 1) \o SubSeq(s, i + 1, Len(s))

\* The orders of s that ascend by Start (rows tying on Start in any order: the
\* design asks for "sorted by start ascending" and says nothing about ties).
RECURSIVE SortedByStart(_)
SortedByStart(s) ==
  IF s = <<>> THEN {<<>>}
  ELSE LET least == {j \in DOMAIN s : \A k \in DOMAIN s : s[j].Start <= s[k].Start}
           \* one index for each distinct row that may come first
           first == {j \in least : \A k \in least : s[k] = s[j] => j <= k}
       IN UNION {{<<s[i]>> \o rest : rest \in SortedByStart(RemoveAt(s, i))} :
                   i \in first}

Exon(r) == [chromosome |-> r.Chromosome, start |-> r.Start, end |-> r.End]

\* A partition whose exon rows disagree on chromosome or strand.
Malformed(df) ==
  \E a, b \in DOMAIN df :
     /\ df[a].Feature = "exon" /\ df[b].Feature = "exon"
     /\ (df[a].Chromosome # df[b].Chromosome \/ df[a].Strand # df[b].Strand)

\* A partition holding a row with start >= end.
BadInterval(df) == \E r \in DOMAIN df : df[r].Start >= df[r].End

\* Transcript.from_gtf_df(df): every result the construction may have.
\*  - a row with start >= end: SchemaError (design, section 7);
\*  - exon rows disagreeing on chromosome or strand: the design leaves the
\*    behaviour open (section 9): MalformedGroupError, or a transcript that
\*    silently carries the chromosome and strand of some exon row;
\*  - otherwise the transcript of the partition's exon rows, sorted by start.
FromGtfDf(df) ==
  LET ex == ExonRows(df)
      src == IF ex = <<>> THEN df ELSE ex
      built == {[error |-> "none", chromosome |-> c, strand |-> s,
                 exons |-> [i \in DOMAIN p |-> Exon(p[i])]] :
                   c \in {src[i].Chromosome : i \in DOMAIN src},
                   s \in {src[i].Strand : i \in DOMAIN src},
                   p \in SortedByStart(ex)}
      none == [error |-> "none", chromosome |-> "", strand |-> "", exons |-> <<>>]
  IN IF BadInterval(df) THEN {[none EXCEPT !.error = "SchemaError"]}
     ELSE IF Malformed(df)
          THEN {[none EXCEPT !.error = "MalformedGroupError"]} \cup built
          ELSE built

\* Transcript.introns: the gap between each two consecutive exons.
Introns(t) ==
  [i \in 1..(IF Len(t.exons) = 0 THEN 0 ELSE Len(t.exons) - 1) |->
     [chromosome |-> t.chromosome, start |-> t.exons[i].end,
      end |-> t.exons[i + 1].start, strand |-> t.strand]]

\* ------------------------------------------------------- pandas: DataFrame

\* pd.DataFrame(rows, columns=cols).
DataFrame(rows, cols) == [columns |-> cols, rows |-> rows]

\* The sort key of sort_values(by=['Chromosome', 'Start']): chromosome as a
\* string, then start as a number.
KeyLeq(a, b) ==
  \/ Rank(Chromosomes, a.Chromosome) < Rank(Chromosomes, b.Chromosome)
  \/ a.Chromosome = b.Chromosome /\ a.Start <= b.Start

\* Insert row r into the sorted sequence s behind every row whose key is <= r's.
RECURSIVE InsertSorted(_, _)
InsertSorted(s, r) ==
  IF s = <<>> THEN <<r>>
  ELSE IF KeyLeq(Head(s), r) THEN <<Head(s)>> \o InsertSorted(Tail(s), r)
       ELSE <<r>> \o s

RECURSIVE SortRows(_)
SortRows(rows) ==
  IF rows = <<>> THEN <<>>
  ELSE InsertSorted(SortRows(SubSeq(rows, 1, Len(rows) - 1)), rows[Len(rows)])

\* SortValues with by=['Start'] only.
RECURSIVE InsertByStart(_, _)
InsertByStart(s, r) ==
  IF s = <<>> THEN <<r>>
  ELSE IF Head(s).Start <= r.Start THEN <<Head(s)>> \o InsertByStart(Tail(s), r)
       ELSE <<r>> \o s

RECURSIVE SortRowsByStart(_)
SortRowsByStart(rows) ==
  IF rows = <<>> THEN <<>>
  ELSE InsertByStart(SortRowsByStart(SubSeq(rows, 1, Len(rows) - 1)), rows[Len(rows)])

SortValuesByStart(df) == [df EXCEPT !.rows = SortRowsByStart(df.rows)]

\* df.sort_values(by=['Chromosome', 'Start']): with several keys pandas sorts
\* by a lexsort of the key columns, which keeps rows with equal keys in their
\* original order.
SortValues(df) == [df EXCEPT !.rows = SortRows(df.rows)]

\* DropDuplicates with subset=['Chromosome', 'Start'] (the sort keys).
DropDuplicatesOnSortKeys(df) ==
  [df EXCEPT !.rows =
     SeqFilterIdx(df.rows,
                  {i \in DOMAIN df.rows : \A j \in 1..(i - 1) :
                     \/ df.rows[j].Chromosome # df.rows[i].Chromosome
                     \/ df.rows[j].Start # df.rows[i].Start},
                  1)]

\* df.drop_duplicates().reset_index(drop=True): a row equal (in every column)
\* to an earlier row is dropped; the survivors keep their order and are
\* renumbered from 0 (the position in the sequence).
DropDuplicates(df) ==
  [df EXCEPT !.rows =
     SeqFilterIdx(df.rows,
                  {i \in DOMAIN df.rows : \A j \in 1..(i - 1) : df.rows[j] # df.rows[i]},
                  1)]

\* df[cols]: the listed columns of every row, rows and their order unchanged.
Project(df, cols) ==
  [columns |-> cols,
   rows |-> [i \in DOMAIN df.rows |-> [c \in Range(cols) |-> df.rows[i][c]]]]

\* ------------------------------------------------- generate_splice_sites

JunctionColumns == <<"Chromosome", "Start", "End", "Strand">>
StartColumns == <<"Chromosome", "Start", "Strand">>
EndColumns == <<"Chromosome", "End", "Strand">>

EmptyFrame == DataFrame(<<>>, <<>>)

\* JunctionRows with x.end and x.start exchanged.
JunctionRowsSwapped(t) ==
  [i \in DOMAIN Introns(t) |->
     [Chromosome |-> Introns(t)[i].chromosome, Start |-> Introns(t)[i].end,
      End |-> Introns(t)[i].start, Strand |-> Introns(t)[i].strand]]

\* [x.chromosome, x.start, x.end, x.strand] for x in transcript.introns
JunctionRows(t) ==
  [i \in DOMAIN Introns(t) |->
     [Chromosome |-> Introns(t)[i].chromosome, Start |-> Introns(t)[i].start,
      End |-> Introns(t)[i].end, Strand |-> Introns(t)[i].strand]]

\* Junctions with "junctions = [...]" in place of junctions.extend([...]): only
\* the last transcript's introns are kept.
JunctionsOfLastOnly(ts) ==
  IF ts = <<>> THEN <<>> ELSE JunctionRows(ts[Len(ts)].transcript)

\* junctions: the introns of every transcript, in the mapping's order.
RECURSIVE Junctions(_)
Junctions(ts) ==
  IF ts = <<>> THEN <<>>
  ELSE JunctionRows(Head(ts).transcript) \o Junctions(Tail(ts))

\* The first error among the constructions, in key order ("none" without one).
RECURSIVE FirstError(_)
FirstError(ts) ==
  IF ts = <<>> THEN "none"
  ELSE IF Head(ts).transcript.error # "none" THEN Head(ts).transcript.error
       ELSE FirstError(Tail(ts))

\* The transcripts mapping, as the sequence of its items in insertion order
\* (the groups come in ascending key order), for every way the
\* constructions may turn out.
RECURSIVE BuildAll(_, _)
BuildAll(gtf, keys) ==
  IF keys = <<>> THEN {<<>>}
  ELSE {<<[key |-> Head(keys), transcript |-> t]>> \o rest :
          t \in FromGtfDf(Group(gtf, Head(keys))),
          rest \in BuildAll(gtf, Tail(keys))}

TranscriptMaps(gtf) == BuildAll(gtf, GroupKeys(gtf))

\* pd.DataFrame(junctions, columns=[...]).sort_values(by=['Chromosome', 'Start'])
SortedFrame(rows) == SortValues(DataFrame(rows, JunctionColumns))

\* StartSites with a drop_duplicates() of its own on the projected columns.
StartSitesDeduplicated(df) == DropDuplicates(Project(df, StartColumns))

\* EndSites returning the start columns a second time.
EndSitesAsStarts(df) == Project(df, StartColumns)

\* df[['Chromosome', 'Start', 'Strand']] and df[['Chromosome', 'End', 'Strand']]
StartSites(df) == Project(df, StartColumns)
EndSites(df) == Project(df, EndColumns)

\* generate_splice_sites(gtf): every result the call may have. A construction
\* that raises ends the call there: nothing is returned.
GenerateSpliceSites(gtf) ==
  {IF FirstError(ts) # "none"
   THEN [error |-> FirstError(ts), transcripts |-> <<>>, junctions |-> <<>>,
         sorted |-> EmptyFrame, df |-> EmptyFrame,
         starts |-> EmptyFrame, ends |-> EmptyFrame]
   ELSE LET sorted == SortedFrame(Junctions(ts))
            frame == DropDuplicates(sorted)
        IN [error |-> "none", transcripts |-> ts, junctions |-> Junctions(ts),
            sorted |-> sorted, df |-> frame,
            starts |-> StartSites(frame), ends |-> EndSites(frame)] :
     ts \in TranscriptMaps(gtf)}

\* ------------------------------------------------------------ input tables

\* Rows of the ingested table (the columns generate_splice_sites reads).
Rows ==
  [Chromosome : Range(Chromosomes), Start : 0..MaxPos, End : 0..MaxPos,
   Strand : Strands, Feature : Features,
   transcript_id : Range(TranscriptIds) \cup {NA}]

\* The two exons [0, 1) and [2, 3), which leave the intron (1, 2).
TwoExons(r) == r.Start \in {0, 2} /\ r.End = r.Start + 1

\* Exon rows of either transcript on one chromosome and strand, every exon of
\* length 1 and the exon [0, 2): gaps, abutting and overlapping exons, exons
\* sharing a start, introns sharing a start.
CoordinateRows ==
  {r \in Rows : /\ r.Feature = "exon" /\ r.transcript_id # NA
                /\ r.Chromosome = "chr1" /\ r.Strand = "+"
                /\ (r.End = r.Start + 1 \/ (r.Start = 0 /\ r.End = 2))}

\* Exon rows of either transcript on either chromosome.
ChromosomeRows ==
  {r \in Rows : /\ r.Feature = "exon" /\ r.transcript_id # NA
                /\ r.Strand = "+" /\ TwoExons(r)}

\* Exon rows of either transcript on either strand.
StrandRows ==
  {r \in Rows : /\ r.Feature = "exon" /\ r.transcript_id # NA
                /\ r.Chromosome = "chr1" /\ TwoExons(r)}

\* Exon and non-exon rows, with and without a transcript id.
FeatureRows ==
  {r \in Rows : /\ r.transcript_id \in {NA, "t1"}
                /\ r.Chromosome = "chr1" /\ r.Strand = "+" /\ TwoExons(r)}

\* Rows with and without start < end, with and without a transcript id.
SchemaRows ==
  {r \in Rows : /\ r.transcript_id \in {NA, "t1"}
                /\ r.Chromosome = "chr1" /\ r.Strand = "+"
                /\ r.Start \in {0, 1} /\ r.End = 1}

\* Exon rows of one transcript on either chromosome and strand.
MainRows ==
  {r \in Rows : r.Feature = "exon" /\ r.transcript_id = "t1" /\ TwoExons(r)}

\* The input tables of the function on its own: each varies one group of
\* columns.
CoreTables ==
  UNION {BoundedSeq(F, MaxRows) :
           F \in {CoordinateRows, ChromosomeRows, StrandRows, FeatureRows}}

SchemaTables == BoundedSeq(SchemaRows, MaxRows)

MainTables == BoundedSeq(MainRows, MaxRows)

\* ------------------------------------------------------------------- state

VARIABLES
  pc,               \* where the run stands
  output_feather,   \* --output_path ends with '.feather'
  splice_requested, \* --splice_sites_output_path is given (not None)
  gtf,              \* the ingested annotation table
  written,          \* the output files written so far
  transcripts,      \* generate_splice_sites: the transcripts mapping
  junctions,        \* generate_splice_sites: the accumulated introns
  sorted,           \* generate_splice_sites: the frame after sort_values
  df,               \* generate_splice_sites: the sorted, deduplicated frame
  starts,           \* the start-sites table returned
  ends,             \* the end-sites table returned
  err               \* the exception the run ended with ("none" without one)

vars == <<pc, output_feather, splice_requested, gtf, written, transcripts,
          junctions, sorted, df, starts, ends, err>>

flags == <<output_feather, splice_requested>>
locals == <<transcripts, junctions, sorted, df, starts, ends>>

NoLocals ==
  /\ transcripts = <<>> /\ junctions = <<>>
  /\ sorted = EmptyFrame /\ df = EmptyFrame
  /\ starts = EmptyFrame /\ ends = EmptyFrame

\* splice_sites_starts, splice_sites_ends = generate_splice_sites(gtf), called
\* at pc = at; a normal return continues at ret, an exception ends the run.
CallGenerateSpliceSites(at, ret) ==
  /\ pc = at
  /\ \E o \in GenerateSpliceSites(gtf) :
       /\ transcripts' = o.transcripts
       /\ junctions' = o.junctions
       /\ sorted' = o.sorted
       /\ df' = o.df
       /\ starts' = o.starts
       /\ ends' = o.ends
       /\ err' = o.error
       /\ pc' = IF o.error = "none" THEN ret ELSE "raised"
  /\ UNCHANGED <<flags, gtf, written>>

\* --------------------------------------------------------------------- main

Init ==
  /\ pc = "start"
  /\ output_feather \in BOOLEAN
  /\ splice_requested \in BOOLEAN
  /\ gtf = <<>>
  /\ written = {}
  /\ NoLocals
  /\ err = "none"

\* if not _OUTPUT_PATH.value.endswith('.feather'): raise ValueError
CheckOutputPath ==
  /\ pc = "start"
  /\ IF output_feather
     THEN pc' = "read" /\ err' = err
     ELSE pc' = "raised" /\ err' = "ValueError"
  /\ UNCHANGED <<flags, gtf, written, locals>>

\* gtf = generate_gtf(_GTF_PATH.value): the ingestion, any table it may yield.
GenerateGtf ==
  /\ pc = "read"
  /\ gtf' \in MainTables
  /\ pc' = "write_gtf"
  /\ UNCHANGED <<flags, written, locals, err>>

\* gtf.to_feather(_OUTPUT_PATH.value)
WriteGtf ==
  /\ pc = "write_gtf"
  /\ written' = written \cup {"annotation"}
  /\ pc' = IF splice_requested THEN "splice" ELSE "done"
  /\ UNCHANGED <<flags, gtf, locals, err>>

MainSpliceSites == CallGenerateSpliceSites("splice", "write_starts")

\* splice_sites_starts.to_feather(splice_sites_start_path)
WriteStarts ==
  /\ pc = "write_starts"
  /\ written' = written \cup {"start_sites"}
  /\ pc' = "write_ends"
  /\ UNCHANGED <<flags, gtf, locals, err>>

\* splice_sites_ends.to_feather(splice_sites_end_path)
WriteEnds ==
  /\ pc = "write_ends"
  /\ written' = written \cup {"end_sites"}
  /\ pc' = "done"
  /\ UNCHANGED <<flags, gtf, locals, err>>

Next ==
  \/ CheckOutputPath
  \/ GenerateGtf
  \/ WriteGtf
  \/ MainSpliceSites
  \/ WriteStarts
  \/ WriteEnds

Spec == Init /\ [][Next]_vars

\* ------------------------------------------- generate_splice_sites on its own

\* The function called once on an input table.
CoreStart(tables) ==
  /\ pc = "called"
  /\ output_feather = TRUE
  /\ splice_requested = TRUE
  /\ gtf \in tables
  /\ written = {}
  /\ NoLocals
  /\ err = "none"

Call == CallGenerateSpliceSites("called", "returned")

InitCore == CoreStart(CoreTables)

NextCore == Call

SpecCore == InitCore /\ [][NextCore]_vars

InitSchema == CoreStart(SchemaTables)

SpecSchema == InitSchema /\ [][NextCore]_vars

\* ================================================================== claims

Returned == pc = "returned"

\* Indices of the exon rows of transcript k in the input table.
ExonIdx(k) ==
  {r \in DOMAIN gtf : gtf[r].transcript_id = k /\ gtf[r].Feature = "exon"}

\* max(n - 1, 0) for the n exon rows of transcript k.
IntronCount(k) ==
  IF ExonIdx(k) = {} THEN 0 ELSE Cardinality(ExonIdx(k)) - 1

\* Where the introns of the i-th transcript start in junctions: the number
\* of introns of the transcripts before it.
RECURSIVE Offset(_)
Offset(i) ==
  IF i <= 1 THEN 0 ELSE Offset(i - 1) + IntronCount(transcripts[i - 1].key)

\* The intron between the j-th and the (j+1)-th exon of transcript t.
IntronBetween(t, j) ==
  [Chromosome |-> t.chromosome, Start |-> t.exons[j].end,
   End |-> t.exons[j + 1].start, Strand |-> t.strand]

\* C1: after generate_splice_sites returns, every transcript id of the table
\* has a transcript whose exons are its n exon rows in ascending start order,
\* the accumulated introns are exactly (end(e_j), start(e_j+1)) for
\* j = 1..n-1 of every transcript in turn, with its chromosome and strand, so
\* each transcript gives max(n-1, 0) of them, and every row of the two output
\* tables comes from one of these introns (a transcript with 0 or 1 exons
\* gives none).
C1_IntronsOfEveryTranscript ==
  Returned =>
    /\ {transcripts[i].key : i \in DOMAIN transcripts}
         = {gtf[r].transcript_id : r \in DOMAIN gtf} \ {NA}
    /\ Len(junctions) = Offset(Len(transcripts) + 1)
    /\ \A i \in DOMAIN transcripts :
         LET k == transcripts[i].key
             t == transcripts[i].transcript
         IN /\ Len(t.exons) = Cardinality(ExonIdx(k))
            /\ \A a, b \in DOMAIN t.exons : a < b => t.exons[a].start <= t.exons[b].start
            /\ \A a \in DOMAIN t.exons :
                 Cardinality({b \in DOMAIN t.exons : t.exons[b] = t.exons[a]})
                   = Cardinality({r \in ExonIdx(k) :
                        /\ gtf[r].Chromosome = t.exons[a].chromosome
                        /\ gtf[r].Start = t.exons[a].start
                        /\ gtf[r].End = t.exons[a].end})
            /\ ExonIdx(k) # {} =>
                 /\ \E r \in ExonIdx(k) : gtf[r].Chromosome = t.chromosome
                 /\ \E r \in ExonIdx(k) : gtf[r].Strand = t.strand
            /\ \A j \in 1..IntronCount(k) :
                 junctions[Offset(i) + j] = IntronBetween(t, j)
    /\ \A i \in DOMAIN starts.rows : \E j \in DOMAIN junctions :
         starts.rows[i] = [Chromosome |-> junctions[j].Chromosome,
                           Start |-> junctions[j].Start,
                           Strand |-> junctions[j].Strand]
    /\ \A i \in DOMAIN ends.rows : \E j \in DOMAIN junctions :
         ends.rows[i] = [Chromosome |-> junctions[j].Chromosome,
                         End |-> junctions[j].End,
                         Strand |-> junctions[j].Strand]

\* C1 witness: a returned call on a table with a three-exon transcript (two
\* introns) and a one-exon transcript (none).
C1_Witness ==
  /\ Returned
  /\ Cardinality(ExonIdx("t1")) = 3
  /\ Cardinality(ExonIdx("t2")) = 1
  /\ Len(junctions) = 2
  /\ junctions[1].Start < junctions[1].End

\* Two distinct exon rows of one transcript.
SameTranscript(a, b) ==
  /\ a # b
  /\ gtf[a].transcript_id # NA /\ gtf[a].transcript_id = gtf[b].transcript_id
  /\ gtf[a].Feature = "exon" /\ gtf[b].Feature = "exon"

\* The exons of every transcript are separated by gaps: no two of them
\* overlap or abut.
Gapped ==
  \A a, b \in DOMAIN gtf :
     SameTranscript(a, b) => gtf[a].End < gtf[b].Start \/ gtf[b].End < gtf[a].Start

C3_OneRowPerDistinctIntron ==
  Returned =>
    /\ \A i, j \in DOMAIN df.rows : df.rows[i] = df.rows[j] => i = j
    /\ Range(df.rows) = Range(junctions)

\* C3 witness: two transcripts give the same intron, which is kept once.
C3_Witness ==
  /\ Returned
  /\ IntronCount("t1") = 1 /\ IntronCount("t2") = 1
  /\ Len(junctions) = 2 /\ junctions[1] = junctions[2]
  /\ junctions[1].Start < junctions[1].End
  /\ Len(df.rows) = 1

\* (chromosome, start) of row a is <= that of row b.
KeyInOrder(a, b) ==
  \/ Rank(Chromosomes, a.Chromosome) < Rank(Chromosomes, b.Chromosome)
  \/ a.Chromosome = b.Chromosome /\ a.Start <= b.Start

\* The first position of row x in the sequence s (0 when it is not there).
FirstIndex(s, x) ==
  IF \E i \in DOMAIN s : s[i] = x
  THEN CHOOSE i \in DOMAIN s : s[i] = x /\ \A j \in 1..(i - 1) : s[j] # x
  ELSE 0

\* C4: adjacent rows of the output are in (chromosome, start) order; the frame
\* was sorted before the duplicates went (the sorted frame holds every
\* junction, in key order), and the survivors stand in the order of their
\* first occurrence in the sorted frame.
C4_SortedThenDeduplicated ==
  Returned =>
    /\ \A i \in 1..(Len(df.rows) - 1) : KeyInOrder(df.rows[i], df.rows[i + 1])
    /\ Len(sorted.rows) = Len(junctions)
    /\ \A x \in Range(junctions) :
         Cardinality({i \in DOMAIN sorted.rows : sorted.rows[i] = x})
           = Cardinality({i \in DOMAIN junctions : junctions[i] = x})
    /\ \A i \in 1..(Len(sorted.rows) - 1) :
         KeyInOrder(sorted.rows[i], sorted.rows[i + 1])
    /\ \A i \in DOMAIN df.rows : FirstIndex(sorted.rows, df.rows[i]) > 0
    /\ \A i \in 1..(Len(df.rows) - 1) :
         FirstIndex(sorted.rows, df.rows[i]) < FirstIndex(sorted.rows, df.rows[i + 1])

\* C4 witness: the junctions were out of order, a duplicate went, and at
\* least two rows survive.
C4_Witness ==
  /\ Returned
  /\ \E i \in 1..(Len(junctions) - 1) : ~KeyInOrder(junctions[i], junctions[i + 1])
  /\ Len(df.rows) < Len(sorted.rows)
  /\ Len(df.rows) >= 2

\* The input table without its rows of absent transcript_id.
WithoutGeneRows ==
  SeqFilterIdx(gtf, {r \in DOMAIN gtf : gtf[r].transcript_id # NA}, 1)

\* C5: the transcripts mapping has no entry for the absent transcript_id
\* (every key is the transcript_id of a row), and on a table with rows of
\* absent transcript_id the call ends as it may on the table without them
\* (same exception, same two tables).
C5_NoGeneRowLeakage ==
  pc # "called" =>
    /\ \A i \in DOMAIN transcripts :
         /\ transcripts[i].key # NA
         /\ \E r \in DOMAIN gtf : gtf[r].transcript_id = transcripts[i].key
    /\ (\E r \in DOMAIN gtf : gtf[r].transcript_id = NA) =>
         \E o \in GenerateSpliceSites(WithoutGeneRows) :
            o.error = err /\ o.starts = starts /\ o.ends = ends

\* C5 witness: two exon rows without transcript_id lie between the exons of
\* a transcript; only the transcript's intron comes out.
C5_Witness ==
  /\ Returned
  /\ Cardinality({r \in DOMAIN gtf :
                    gtf[r].transcript_id = NA /\ gtf[r].Feature = "exon"}) = 2
  /\ IntronCount("t1") = 1
  /\ Len(df.rows) = 1

\* No transcript of the table has two exons.
NoMultiExonTranscript ==
  \A k \in Range(TranscriptIds) : Cardinality(ExonIdx(k)) <= 1

\* C7: a table with no transcript, or with no transcript of two exons, gives
\* two empty tables with the columns (Chromosome, Start, Strand) and
\* (Chromosome, End, Strand), and no exception.
C7_EmptyTablesKeepSchema ==
  (pc # "called" /\ NoMultiExonTranscript) =>
    /\ Returned /\ err = "none"
    /\ starts = [columns |-> <<"Chromosome", "Start", "Strand">>, rows |-> <<>>]
    /\ ends = [columns |-> <<"Chromosome", "End", "Strand">>, rows |-> <<>>]

\* C7 witness: a returned call on a table of two one-exon transcripts.
C7_Witness ==
  /\ Returned
  /\ Cardinality(ExonIdx("t1")) = 1 /\ Cardinality(ExonIdx("t2")) = 1
  /\ Len(transcripts) = 2

\* C10: both tables have one row for each distinct intron, row i of each
\* being the projection of row i of the deduplicated frame.
C10_ViewsNotDeduplicated ==
  Returned =>
    /\ Len(starts.rows) = Cardinality(Range(junctions))
    /\ Len(ends.rows) = Cardinality(Range(junctions))
    /\ Len(df.rows) = Cardinality(Range(junctions))
    /\ \A i \in DOMAIN df.rows :
         /\ starts.rows[i] = [Chromosome |-> df.rows[i].Chromosome,
                              Start |-> df.rows[i].Start,
                              Strand |-> df.rows[i].Strand]
         /\ ends.rows[i] = [Chromosome |-> df.rows[i].Chromosome,
                            End |-> df.rows[i].End,
                            Strand |-> df.rows[i].Strand]

\* C10 witness: two introns share chromosome, start and strand and differ in
\* end; the start-sites table holds the same row twice.
C10_Witness ==
  /\ Returned
  /\ Len(starts.rows) = 2
  /\ starts.rows[1] = starts.rows[2]
  /\ ends.rows[1] # ends.rows[2]

\* Some transcript partition of the table has exon rows that disagree on
\* chromosome or strand.
MalformedInput ==
  \E a, b \in DOMAIN gtf :
     /\ SameTranscript(a, b)
     /\ (gtf[a].Chromosome # gtf[b].Chromosome \/ gtf[a].Strand # gtf[b].Strand)

\* C6 as claimed: a run of main asked for splice sites on such a table ends in
\* MalformedGroupError with no output file written.
C6_NoPartialOutput ==
  (splice_requested /\ MalformedInput /\ pc \in {"done", "raised"}) =>
    (err = "MalformedGroupError" /\ written = {})

\* C8 as claimed: a call on a table holding a row with start >= end ends in
\* SchemaError.
C8_SchemaErrorSurfaced ==
  (pc # "called" /\ \E r \in DOMAIN gtf : gtf[r].Start >= gtf[r].End) =>
    (pc = "raised" /\ err = "SchemaError")

====
